---- MODULE Spec2Model ----
(* Model of build/build_lexicon.py: the lexicon construction pipeline      *)
(* (normalisation, tokenisation, ordered de-duplication, extras merge,     *)
(* seeded shuffle, target sizing and the final write).                     *)
(*                                                                         *)
(* Text is a sequence of characters; a character is a one-element name.    *)
(* The character tables below are the part of the Unicode database that    *)
(* the code consults through unicodedata/str: decomposition, combining     *)
(* class, isalpha, lower, and the \w class of the re module.               *)
EXTENDS Integers, Sequences, FiniteSets, TLC

-----------------------------------------------------------------------------
(* Bounds of the model *)

MaxRawLen == 3
MaxInputs == 2
MaxSeed == 1
MaxTarget == 4

-----------------------------------------------------------------------------
(* Characters *)

LowerLetters == {"a", "b", "c", "e", "f", "i"}
UpperLetters == {"A", "B", "C", "E"}
\* precomposed accented letters, U+00E9 and U+00C9
AccentedLetters == {"e_acute", "E_acute"}
\* U+0301 COMBINING ACUTE ACCENT
CombiningMarks == {"acute"}
\* U+FB01 LATIN SMALL LIGATURE FI, compatibility decomposition "f" "i"
Ligatures == {"fi_lig"}
Digits == {"1", "2"}
Chars == LowerLetters \cup UpperLetters \cup AccentedLetters \cup CombiningMarks
           \cup Ligatures \cup Digits \cup {"_", "-", "'", " ", ",", "LF"}

\* the characters raw tokens are drawn from when normalize_token is checked alone
RawChars == {"a", "E", "e_acute", "E_acute", "acute", "fi_lig", "1", "_", "-", "'", " "}

\* unicodedata.normalize("NFKD", ch) for one character
NFKD(ch) ==
  CASE ch = "e_acute" -> <<"e", "acute">>
    [] ch = "E_acute" -> <<"E", "acute">>
    [] ch = "fi_lig" -> <<"f", "i">>
    [] OTHER -> <<ch>>

\* unicodedata.combining(ch) # 0
combining(ch) == ch \in CombiningMarks

\* str.isalpha for one character
isalpha(ch) ==
  ch \in LowerLetters \cup UpperLetters \cup AccentedLetters \cup Ligatures

\* str.lower for one character
lower(ch) ==
  CASE ch = "A" -> "a"
    [] ch = "B" -> "b"
    [] ch = "C" -> "c"
    [] ch = "E" -> "e"
    [] ch = "E_acute" -> "e_acute"
    [] OTHER -> ch

\* the class \w of the re module: alphanumerics and underscore
isword(ch) == isalpha(ch) \/ ch \in Digits \/ ch = "_"

\* str.isspace for one character
isspace(ch) == ch \in {" ", "LF"}

-----------------------------------------------------------------------------
(* Sequence helpers *)

RECURSIVE FlatMap(_, _)
FlatMap(F(_), s) == IF s = <<>> THEN <<>> ELSE F(Head(s)) \o FlatMap(F, Tail(s))

Map(F(_), s) == [i \in 1..Len(s) |-> F(s[i])]

Range(s) == {s[i] : i \in 1..Len(s)}

\* all sequences over S of length lo..hi
SeqsOf(S, lo, hi) == UNION {[1..n -> S] : n \in lo..hi}

-----------------------------------------------------------------------------
(* Utilities of build_lexicon.py *)

_strip_accents(s) ==
  LET nfkd == FlatMap(NFKD, s)
  IN SelectSeq(nfkd, LAMBDA ch : ~combining(ch))

_keep_char(ch, keep_hyphens) ==
  IF isalpha(ch) THEN TRUE
  ELSE IF keep_hyphens /\ ch = "-" THEN TRUE
  ELSE FALSE

\* variant: the filter runs first and the decomposition's marks are left in
normalize_token_decompose_last(tok, keep_hyphens) ==
  LET kept == SelectSeq(tok, LAMBDA ch : _keep_char(ch, keep_hyphens))
  IN Map(lower, FlatMap(NFKD, kept))

normalize_token(tok, keep_hyphens) ==
  LET s == _strip_accents(tok)
      kept == SelectSeq(s, LAMBDA ch : _keep_char(ch, keep_hyphens))
  IN Map(lower, kept)


\* WORD_SPLIT_RE = [^\w'-]+ : the characters that do not split
TokenChar(ch) == isword(ch) \/ ch = "'" \/ ch = "-"

RECURSIVE SplitRuns(_, _)
SplitRuns(text, cur) ==
  IF text = <<>> THEN (IF cur = <<>> THEN <<>> ELSE <<cur>>)
  ELSE IF TokenChar(Head(text)) THEN SplitRuns(Tail(text), Append(cur, Head(text)))
  ELSE (IF cur = <<>> THEN <<>> ELSE <<cur>>) \o SplitRuns(Tail(text), <<>>)

tokenize_text(text) == SplitRuns(text, <<>>)

\* the post-filter of the corpus loop: the three "continue" tests
CorpusFilter(norm, min_len, max_len) ==
  /\ norm # <<>>
  /\ \E i \in 1..Len(norm) : isalpha(norm[i])
  /\ min_len <= Len(norm) /\ Len(norm) <= max_len

\* variant: the extras are trusted and their length is not tested
ExtrasFilter_no_length(t, min_len, max_len) ==
  /\ t # <<>>
  /\ \E i \in 1..Len(t) : isalpha(t[i])

\* the post-filter of load_extras: its own copy of the three tests
ExtrasFilter(t, min_len, max_len) ==
  /\ t # <<>>
  /\ \E i \in 1..Len(t) : isalpha(t[i])
  /\ min_len <= Len(t) /\ Len(t) <= max_len

\* the tokens of one file's text that reach seen.setdefault, in order
AdmittedTokens(txt, keep_hyphens, min_len, max_len) ==
  LET norms == Map(LAMBDA raw : normalize_token(raw, keep_hyphens), tokenize_text(txt))
  IN SelectSeq(norms, LAMBDA norm : CorpusFilter(norm, min_len, max_len))

\* iteration over a text file: the lines, split at the line feed
RECURSIVE SplitLines(_, _)
SplitLines(text, cur) ==
  IF text = <<>> THEN (IF cur = <<>> THEN <<>> ELSE <<cur>>)
  ELSE IF Head(text) = "LF" THEN <<cur>> \o SplitLines(Tail(text), <<>>)
  ELSE SplitLines(Tail(text), Append(cur, Head(text)))

\* str.strip
RECURSIVE LStrip(_)
LStrip(s) == IF s # <<>> /\ isspace(Head(s)) THEN LStrip(Tail(s)) ELSE s

RECURSIVE RStrip(_)
RStrip(s) ==
  IF s # <<>> /\ isspace(s[Len(s)]) THEN RStrip(SubSeq(s, 1, Len(s) - 1)) ELSE s

strip(s) == RStrip(LStrip(s))

\* load_extras on the text of an extras file that opened
load_extras(text, keep_hyphens, min_len, max_len) ==
  LET stripped == SelectSeq(Map(strip, SplitLines(text, <<>>)), LAMBDA t : t # <<>>)
      norms == Map(LAMBDA t : normalize_token(t, keep_hyphens), stripped)
  IN SelectSeq(norms, LAMBDA t : ExtrasFilter(t, min_len, max_len))

\* variant: a repeated token is taken out and put back at the end
OrderedInsert_move_to_end(keys, tok) ==
  Append(SelectSeq(keys, LAMBDA k : k # tok), tok)

\* seen.setdefault(norm, None) / "if w not in seen: seen[w] = None" on the key order
OrderedInsert(keys, tok) == IF tok \in Range(keys) THEN keys ELSE Append(keys, tok)

RECURSIVE InsertAll(_, _)
InsertAll(keys, toks) ==
  IF toks = <<>> THEN keys ELSE InsertAll(OrderedInsert(keys, Head(toks)), Tail(toks))

-----------------------------------------------------------------------------
(* The file system the runs read *)

\* the paths, in lexicographic order
PathOrder == <<"a.txt", "dir", "dir/x.txt", "dir/y.txt", "dir/z.md", "locked.txt",
               "nowhere">>

\* what may be given on the command line
InputPaths == {"a.txt", "dir", "locked.txt", "nowhere"}

Directories == {"dir"}
RegularFiles == {"a.txt", "dir/x.txt", "dir/y.txt", "dir/z.md", "locked.txt"}
\* files whose open() raises
Unreadable == {"locked.txt"}
DirEntries(d) == IF d = "dir" THEN {"dir/y.txt", "dir/x.txt", "dir/z.md"} ELSE {}
HasTxtSuffix(f) == f \in {"a.txt", "dir/x.txt", "dir/y.txt", "locked.txt"}

FileText(f) ==
  CASE f = "a.txt" -> <<"C", "a", "f", "e_acute", ",", " ", "c", "a", "f", "e", " ",
                        "a", "-", "b", " ", "1", "2", " ", "a", "'", "b", " ", "_", "-">>
    [] f = "dir/x.txt" -> <<"f", "a", " ", "B", "e">>
    [] f = "dir/y.txt" -> <<"b", "e", "LF", "fi_lig", "_", "1", " ", "e">>
    [] OTHER -> <<>>

\* --extras: absent, a path that does not open, or a file of terms
ExtrasPaths == {"none", "missing.txt", "extras.txt"}
ExtrasText == <<"A", "b", "LF", "LF", " ", "e", " ", "b", " ", "LF", "f", "a", "LF",
                "1", "-", "LF", "c", "a", "f", "E_acute">>

Rank(p) == CHOOSE i \in 1..Len(PathOrder) : PathOrder[i] = p

\* variant: the listing is used in the order the file system gave it
sorted_as_listed(listing) == listing

\* sorted(...) on a list of paths
sorted(listing) == SortSeq(listing, LAMBDA p, q : Rank(p) < Rank(q))

\* path.rglob("*.txt"): the matching files, in whatever order the file system gives
rglob(d) ==
  LET hits == {f \in DirEntries(d) : HasTxtSuffix(f)}
  IN {s \in [1..Cardinality(hits) -> hits] : \A i, j \in 1..Len(s) : s[i] = s[j] => i = j}

\* iter_input_files: every list of files the call can return
RECURSIVE iter_input_files(_)
iter_input_files(inputs) ==
  IF inputs = <<>> THEN {<<>>}
  ELSE LET p == Head(inputs)
           here == IF p \in Directories THEN {sorted(l) : l \in rglob(p)}
                   ELSE IF p \in RegularFiles THEN {<<p>>}
                   ELSE {<<>>}
       IN {h \o rest : h \in here, rest \in iter_input_files(Tail(inputs))}

\* the "[warn] ignoring non-existent path" lines of iter_input_files
PathWarnings(inputs) ==
  SelectSeq(inputs, LAMBDA p : p \notin Directories /\ p \notin RegularFiles)

-----------------------------------------------------------------------------
(* The seeded generator.  random.Random is library code; it is modelled as a  *)
(* linear congruential generator: what the pipeline relies on is only that    *)
(* the stream is a function of the seed and of the draws made so far.         *)

RngModulus == 101
RngMultiplier == 37
RngIncrement == 11

\* random.Random(seed)
Random(seed) == (seed * 53 + 7) % RngModulus

RngStep(st) == (RngMultiplier * st + RngIncrement) % RngModulus

\* variant: half of the exchange is missing
Swap_overwrite(x, i, j) == [x EXCEPT ![i] = x[j]]

Swap(x, i, j) == [x EXCEPT ![i] = x[j], ![j] = x[i]]

\* rng.shuffle(x): for i in reversed(range(1, len(x))): j = randbelow(i + 1); swap
RECURSIVE ShuffleFrom(_, _, _)
ShuffleFrom(x, i, st) ==
  IF i < 2 THEN [seq |-> x, rng |-> st]
  ELSE LET st2 == RngStep(st)
           j == (st2 % i) + 1
       IN ShuffleFrom(Swap(x, i, j), i - 1, st2)

shuffle(x, st) == ShuffleFrom(x, Len(x), st)

-----------------------------------------------------------------------------
(* State *)

VARIABLES
  cfg,        \* the arguments of build_lexicon, fixed for both runs
  run,        \* 1: the first run, 2: an independent second run on the same inputs
  pc,         \* position in build_lexicon
  files,      \* the list iter_input_files returned
  fi,         \* number of files the read loop has handled
  seen,       \* the keys of the OrderedDict, in order
  base_words, \* the list of the same name
  rng,        \* state of the generator, -1 before it is created
  lex,        \* the final list
  warnings,   \* the [warn] lines printed so far
  exit_code,  \* -1 while running, then the exit status of the process
  error,      \* what ended the run, "none" otherwise
  outfile,    \* the file at output_path
  out0,       \* history: the file at output_path when the run started
  admitted,   \* history: every token that passed a post-filter, in encounter order
  unique,     \* history: base_words when the shuffle started
  shuffled,   \* history: base_words right after the first shuffle
  prev,       \* history: how the first run ended
  raw,        \* normalize_token alone: the raw token
  kh,         \* normalize_token alone: keep_hyphens
  norm1,      \* normalize_token(raw, kh)
  norm2,      \* normalize_token(norm1, kh)
  npc         \* normalize_token alone: position

pipeline == <<cfg, run, pc, files, fi, seen, base_words, rng, lex, warnings, exit_code,
              error, outfile, out0, admitted, unique, shuffled, prev>>
normvars == <<raw, kh, norm1, norm2, npc>>
vars == <<pipeline, normvars>>

\* target: None, or <<T>> for --target T
None == <<>>
NoFile == [exists |-> FALSE, lines |-> <<>>]
\* a file left at output_path by something else
OldFile == [exists |-> TRUE, lines |-> <<<<"o", "l", "d">>>>]
NoPrev == [exit_code |-> -1, outfile |-> NoFile, error |-> "none"]

\* --min-len and --max-len: the defaults, and a pair tight enough to reject
LenBounds == {[min_len |-> 2, max_len |-> 32], [min_len |-> 1, max_len |-> 3]}

Configs ==
  [inputs : SeqsOf(InputPaths, 1, MaxInputs),
   extras_path : ExtrasPaths,
   target : {None} \cup {<<t>> : t \in -1..MaxTarget},
   keep_hyphens : BOOLEAN,
   len_bounds : LenBounds,
   seed : 0..MaxSeed,
   allow_duplicates : BOOLEAN]

\* the state of a process that has just entered build_lexicon
Entry ==
  /\ pc = "iter_input_files"
  /\ files = <<>> /\ fi = 0 /\ seen = <<>> /\ base_words = <<>> /\ rng = -1
  /\ lex = <<>> /\ warnings = <<>> /\ exit_code = -1 /\ error = "none"
  /\ admitted = <<>> /\ unique = <<>> /\ shuffled = <<>>

NormIdle == raw = <<>> /\ kh = FALSE /\ norm1 = <<>> /\ norm2 = <<>> /\ npc = "idle"

Init ==
  /\ cfg \in Configs
  /\ run = 1
  /\ Entry
  /\ outfile \in {NoFile, OldFile} /\ out0 = outfile /\ prev = NoPrev
  /\ NormIdle

-----------------------------------------------------------------------------
(* build_lexicon, step by step *)

\* files = iter_input_files(inputs)
IterInputFiles ==
  /\ pc = "iter_input_files"
  /\ \E fs \in iter_input_files(cfg.inputs) : files' = fs
  /\ warnings' = warnings \o PathWarnings(cfg.inputs)
  /\ pc' = "check_files"
  /\ UNCHANGED <<cfg, run, fi, seen, base_words, rng, lex, exit_code, error, outfile,
                 out0, admitted, unique, shuffled, prev, normvars>>

\* if not files: sys.exit(2)
NoInputFiles ==
  /\ pc = "check_files" /\ files = <<>>
  /\ pc' = "exit" /\ exit_code' = 2 /\ error' = "NoInputFiles"
  /\ UNCHANGED <<cfg, run, files, fi, seen, base_words, rng, lex, warnings, outfile,
                 out0, admitted, unique, shuffled, prev, normvars>>

HaveInputFiles ==
  /\ pc = "check_files" /\ files # <<>>
  /\ pc' = "read"
  /\ UNCHANGED <<cfg, run, files, fi, seen, base_words, rng, lex, warnings, exit_code,
                 error, outfile, out0, admitted, unique, shuffled, prev, normvars>>

\* one turn of "for fp in files" whose open/read succeeds
ReadFile ==
  /\ pc = "read" /\ fi < Len(files)
  /\ files[fi + 1] \notin Unreadable
  /\ LET toks == AdmittedTokens(FileText(files[fi + 1]), cfg.keep_hyphens,
                                cfg.len_bounds.min_len, cfg.len_bounds.max_len)
     IN /\ seen' = InsertAll(seen, toks)
        /\ admitted' = admitted \o toks
  /\ fi' = fi + 1
  /\ UNCHANGED <<cfg, run, pc, files, base_words, rng, lex, warnings, exit_code, error,
                 outfile, out0, unique, shuffled, prev, normvars>>

\* variant: the failed read is reported and ends the run
ReadFailed_raises ==
  /\ pc = "read" /\ fi < Len(files)
  /\ files[fi + 1] \in Unreadable
  /\ warnings' = Append(warnings, files[fi + 1])
  /\ pc' = "exit" /\ exit_code' = 1 /\ error' = "OSError"
  /\ UNCHANGED <<cfg, run, files, fi, seen, base_words, rng, lex, outfile, out0,
                 admitted, unique, shuffled, prev, normvars>>

\* one turn whose open/read raises: warn and continue
ReadFailed ==
  /\ pc = "read" /\ fi < Len(files)
  /\ files[fi + 1] \in Unreadable
  /\ warnings' = Append(warnings, files[fi + 1])
  /\ fi' = fi + 1
  /\ UNCHANGED <<cfg, run, pc, files, seen, base_words, rng, lex, exit_code, error,
                 outfile, out0, admitted, unique, shuffled, prev, normvars>>

\* base_words = list(seen.keys())
ReadDone ==
  /\ pc = "read" /\ fi = Len(files)
  /\ base_words' = seen
  /\ pc' = "extras"
  /\ UNCHANGED <<cfg, run, files, fi, seen, rng, lex, warnings, exit_code, error,
                 outfile, out0, admitted, unique, shuffled, prev, normvars>>

\* if extras_path: false
NoExtras ==
  /\ pc = "extras" /\ cfg.extras_path = "none"
  /\ pc' = "shuffle"
  /\ UNCHANGED <<cfg, run, files, fi, seen, base_words, rng, lex, warnings, exit_code,
                 error, outfile, out0, admitted, unique, shuffled, prev, normvars>>

\* load_extras: open() raises, nothing catches it
ExtrasOpenFails ==
  /\ pc = "extras" /\ cfg.extras_path = "missing.txt"
  /\ pc' = "exit" /\ exit_code' = 1 /\ error' = "FileNotFoundError"
  /\ UNCHANGED <<cfg, run, files, fi, seen, base_words, rng, lex, warnings, outfile,
                 out0, admitted, unique, shuffled, prev, normvars>>

\* extras loaded and merged; base_words = list(seen.keys())
MergeExtras ==
  /\ pc = "extras" /\ cfg.extras_path = "extras.txt"
  /\ LET extras == load_extras(ExtrasText, cfg.keep_hyphens, cfg.len_bounds.min_len,
                               cfg.len_bounds.max_len)
     IN /\ seen' = InsertAll(seen, extras)
        /\ admitted' = admitted \o extras
        /\ base_words' = InsertAll(seen, extras)
  /\ pc' = "shuffle"
  /\ UNCHANGED <<cfg, run, files, fi, rng, lex, warnings, exit_code, error, outfile,
                 out0, unique, shuffled, prev, normvars>>

\* rng = random.Random(seed); rng.shuffle(base_words)
Shuffle ==
  /\ pc = "shuffle"
  /\ LET r == shuffle(base_words, Random(cfg.seed))
     IN /\ base_words' = r.seq
        /\ shuffled' = r.seq
        /\ rng' = r.rng
  /\ unique' = base_words
  /\ pc' = "target"
  /\ UNCHANGED <<cfg, run, files, fi, seen, lex, warnings, exit_code, error, outfile,
                 out0, admitted, prev, normvars>>

\* base_words[:target], with Python's reading of a negative bound
SliceTo(x, target) ==
  IF target >= 0 THEN SubSeq(x, 1, IF target < Len(x) THEN target ELSE Len(x))
  ELSE SubSeq(x, 1, IF Len(x) + target > 0 THEN Len(x) + target ELSE 0)

\* variant: the padding is made of altered copies of the tokens
Padding_variants(x, deficit) == [i \in 1..deficit |-> Append(x[((i - 1) % Len(x)) + 1], "s")]

\* [base_words[i % len(base_words)] for i in range(deficit)], len(base_words) > 0
Padding(x, deficit) == [i \in 1..deficit |-> x[((i - 1) % Len(x)) + 1]]

\* target is None: lex = base_words
NoTarget ==
  /\ pc = "target" /\ cfg.target = None
  /\ lex' = base_words
  /\ pc' = "write"
  /\ UNCHANGED <<cfg, run, files, fi, seen, base_words, rng, warnings, exit_code, error,
                 outfile, out0, admitted, unique, shuffled, prev, normvars>>

\* len(base_words) >= target: lex = base_words[:target]
Truncate ==
  /\ pc = "target" /\ cfg.target # None
  /\ Len(base_words) >= cfg.target[1]
  /\ lex' = SliceTo(base_words, cfg.target[1])
  /\ pc' = "write"
  /\ UNCHANGED <<cfg, run, files, fi, seen, base_words, rng, warnings, exit_code, error,
                 outfile, out0, admitted, unique, shuffled, prev, normvars>>

\* variant: the output file is opened for writing before the target policy
Insufficient_after_open ==
  /\ pc = "target" /\ cfg.target # None
  /\ Len(base_words) < cfg.target[1]
  /\ ~cfg.allow_duplicates
  /\ outfile' = [exists |-> TRUE, lines |-> <<>>]
  /\ pc' = "exit" /\ exit_code' = 3 /\ error' = "InsufficientTokens"
  /\ UNCHANGED <<cfg, run, files, fi, seen, base_words, rng, lex, warnings, out0,
                 admitted, unique, shuffled, prev, normvars>>

\* too few tokens and not allow_duplicates: sys.exit(3)
Insufficient ==
  /\ pc = "target" /\ cfg.target # None
  /\ Len(base_words) < cfg.target[1]
  /\ ~cfg.allow_duplicates
  /\ pc' = "exit" /\ exit_code' = 3 /\ error' = "InsufficientTokens"
  /\ UNCHANGED <<cfg, run, files, fi, seen, base_words, rng, lex, warnings, outfile,
                 out0, admitted, unique, shuffled, prev, normvars>>

\* too few tokens, allow_duplicates, and no token at all: i % 0 raises
PadDivisionByZero ==
  /\ pc = "target" /\ cfg.target # None
  /\ Len(base_words) < cfg.target[1]
  /\ cfg.allow_duplicates
  /\ Len(base_words) = 0
  /\ pc' = "exit" /\ exit_code' = 1 /\ error' = "ZeroDivisionError"
  /\ UNCHANGED <<cfg, run, files, fi, seen, base_words, rng, lex, warnings, outfile,
                 out0, admitted, unique, shuffled, prev, normvars>>

\* too few tokens and allow_duplicates: pad, shuffle the padding, shuffle the whole
Pad ==
  /\ pc = "target" /\ cfg.target # None
  /\ Len(base_words) < cfg.target[1]
  /\ cfg.allow_duplicates
  /\ Len(base_words) > 0
  /\ LET deficit == cfg.target[1] - Len(base_words)
         p == shuffle(Padding(base_words, deficit), rng)
         l == shuffle(base_words \o p.seq, p.rng)
     IN /\ lex' = l.seq
        /\ rng' = l.rng
  /\ pc' = "write"
  /\ UNCHANGED <<cfg, run, files, fi, seen, base_words, warnings, exit_code, error,
                 outfile, out0, admitted, unique, shuffled, prev, normvars>>

\* the output file is opened for writing and every line written
Write ==
  /\ pc = "write"
  /\ outfile' = [exists |-> TRUE, lines |-> lex]
  /\ pc' = "exit" /\ exit_code' = 0
  /\ UNCHANGED <<cfg, run, files, fi, seen, base_words, rng, lex, warnings, error,
                 out0, admitted, unique, shuffled, prev, normvars>>

\* the program is started again with the same arguments on the same files
Rerun ==
  /\ pc = "exit" /\ run = 1
  /\ run' = 2
  /\ prev' = [exit_code |-> exit_code, outfile |-> outfile, error |-> error]
  /\ out0' = outfile
  /\ pc' = "iter_input_files"
  /\ files' = <<>> /\ fi' = 0 /\ seen' = <<>> /\ base_words' = <<>> /\ rng' = -1
  /\ lex' = <<>> /\ warnings' = <<>> /\ exit_code' = -1 /\ error' = "none"
  /\ admitted' = <<>> /\ unique' = <<>> /\ shuffled' = <<>>
  /\ UNCHANGED <<cfg, outfile, normvars>>

Next ==
  \/ IterInputFiles \/ NoInputFiles \/ HaveInputFiles
  \/ ReadFile \/ ReadFailed \/ ReadDone
  \/ NoExtras \/ ExtrasOpenFails \/ MergeExtras
  \/ Shuffle
  \/ NoTarget \/ Truncate \/ Insufficient \/ PadDivisionByZero \/ Pad
  \/ Write
  \/ Rerun

Spec == Init /\ [][Next]_vars

-----------------------------------------------------------------------------
(* normalize_token on its own *)

PipelineIdle ==
  /\ cfg = [inputs |-> <<>>, extras_path |-> "none", target |-> None,
            keep_hyphens |-> FALSE, len_bounds |-> [min_len |-> 2, max_len |-> 32],
            seed |-> 333,
            allow_duplicates |-> FALSE]
  /\ run = 0 /\ pc = "idle" /\ files = <<>> /\ fi = 0 /\ seen = <<>>
  /\ base_words = <<>> /\ rng = -1 /\ lex = <<>> /\ warnings = <<>> /\ exit_code = -1
  /\ error = "none" /\ outfile = NoFile /\ out0 = NoFile /\ admitted = <<>>
  /\ unique = <<>> /\ shuffled = <<>> /\ prev = NoPrev

InitNorm ==
  /\ PipelineIdle
  /\ raw \in SeqsOf(RawChars, 0, MaxRawLen)
  /\ kh \in BOOLEAN
  /\ norm1 = <<>> /\ norm2 = <<>> /\ npc = "raw"

\* norm = normalize_token(raw, keep_hyphens)
Normalize ==
  /\ npc = "raw"
  /\ norm1' = normalize_token(raw, kh)
  /\ npc' = "once"
  /\ UNCHANGED <<pipeline, raw, kh, norm2>>

\* the result is normalised again
NormalizeAgain ==
  /\ npc = "once"
  /\ norm2' = normalize_token(norm1, kh)
  /\ npc' = "twice"
  /\ UNCHANGED <<pipeline, raw, kh, norm1>>

NextNorm == Normalize \/ NormalizeAgain

SpecNorm == InitNorm /\ [][NextNorm]_vars

-----------------------------------------------------------------------------
(* Vocabulary of the properties *)

NoDuplicates(s) == \A i, j \in 1..Len(s) : s[i] = s[j] => i = j

Count(s, x) == Cardinality({i \in 1..Len(s) : s[i] = x})

FirstIndex(s, x) == CHOOSE i \in 1..Len(s) : s[i] = x /\ \A j \in 1..(i - 1) : s[j] # x

\* keys holds each token of stream once, in the order of first occurrence
FirstOccurrenceOrder(keys, stream) ==
  /\ NoDuplicates(keys)
  /\ Range(keys) = Range(stream)
  /\ \A i, j \in 1..Len(keys) :
       i < j => FirstIndex(stream, keys[i]) < FirstIndex(stream, keys[j])

\* the definition of NormalizedToken under the run's configuration
IsNormalizedToken(t) ==
  /\ \A i \in 1..Len(t) :
       \/ isalpha(t[i]) /\ lower(t[i]) = t[i]
       \/ cfg.keep_hyphens /\ t[i] = "-"
  /\ \E i \in 1..Len(t) : isalpha(t[i])
  /\ cfg.len_bounds.min_len <= Len(t) /\ Len(t) <= cfg.len_bounds.max_len

Finished == pc = "exit"
Written == pc = "exit" /\ exit_code = 0
PastShuffle == rng # -1
HasTarget == cfg.target # None

\* the tokens of the files that could be read, and of the extras file
ReadableTokens ==
  UNION {Range(AdmittedTokens(FileText(files[i]), cfg.keep_hyphens,
                              cfg.len_bounds.min_len, cfg.len_bounds.max_len)) :
           i \in {k \in 1..Len(files) : files[k] \notin Unreadable}}
ExtrasTokens ==
  IF cfg.extras_path = "extras.txt"
  THEN Range(load_extras(ExtrasText, cfg.keep_hyphens, cfg.len_bounds.min_len,
                         cfg.len_bounds.max_len))
  ELSE {}

-----------------------------------------------------------------------------
(* Properties *)

\* C1 (no fabrication): every line of a written output is a member of the set of
\* normalised tokens admitted from the input files and the extras file.
C1_NoFabrication ==
  Written => Range(outfile.lines) \subseteq Range(admitted)

\* C1 witness: a run that padded with duplicates has written its output.
C1_Witness ==
  /\ Written /\ HasTarget /\ cfg.allow_duplicates
  /\ Len(unique) < cfg.target[1]
  /\ Len(outfile.lines) > Len(unique)

\* C2 (truncation size contract, as claimed for every accepted target): with a
\* target T and at least T unique tokens, the output has exactly T lines, the
\* first T elements of the shuffled unique sequence.
C2_TruncationSize ==
  (Written /\ HasTarget /\ Len(unique) >= cfg.target[1]) =>
    /\ Len(outfile.lines) = cfg.target[1]
    /\ outfile.lines = SubSeq(shuffled, 1, cfg.target[1])

\* C3 (padding size contract, as claimed for every n with 0 <= n < T): with
\* allow_duplicates the run writes exactly T lines, the unique sequence plus a
\* padding that cycles through it; every unique token appears, one at least twice.
C3_PaddingSize ==
  (Finished /\ PastShuffle /\ HasTarget /\ cfg.allow_duplicates
     /\ 0 <= Len(unique) /\ Len(unique) < cfg.target[1]) =>
    /\ exit_code = 0
    /\ Len(outfile.lines) = cfg.target[1]
    /\ \A t \in Range(shuffled) :
         Count(outfile.lines, t) =
           1 + Count(Padding(shuffled, cfg.target[1] - Len(shuffled)), t)
    /\ Range(outfile.lines) = Range(unique)
    /\ \E t \in Range(unique) : Count(outfile.lines, t) > 1

\* C4 (fatal conditions write nothing): zero resolved files end the run with exit
\* code 2, too few unique tokens without allow_duplicates with exit code 3, and
\* until a run has ended with exit code 0 the output file is as the run found it.
C4_FatalWritesNothing ==
  /\ (Finished /\ files = <<>>) => exit_code = 2
  /\ (Finished /\ PastShuffle /\ HasTarget /\ ~cfg.allow_duplicates
        /\ Len(unique) < cfg.target[1]) => exit_code = 3
  /\ exit_code \in {2, 3} => Finished
  /\ ~Written => outfile = out0

\* C4 witness: a run has ended with exit code 3 and an older output file exists.
C4_Witness == Finished /\ exit_code = 3 /\ out0.exists /\ base_words # <<>>

\* C5 (uniqueness without target): without a target the output has no duplicate
\* line and is a permutation of the unique token set.
C5_UniqueWithoutTarget ==
  (Written /\ ~HasTarget) =>
    /\ NoDuplicates(outfile.lines)
    /\ Range(outfile.lines) = Range(admitted)
    /\ Len(outfile.lines) = Cardinality(Range(admitted))

\* C5 witness: repeated tokens were read, and the shuffle changed the order.
C5_Witness ==
  /\ Written /\ ~HasTarget
  /\ Len(admitted) > Len(outfile.lines)
  /\ Len(outfile.lines) >= 3
  /\ outfile.lines # unique

\* C6 (determinism): a second run with the same inputs, extras, configuration and
\* seed ends with the same exit code and leaves the same output file.
C6_Determinism ==
  (run = 2 /\ Finished) =>
    /\ exit_code = prev.exit_code
    /\ error = prev.error
    /\ outfile = prev.outfile

\* C6 witness: both runs listed a directory and took the padding path.
C6_Witness ==
  /\ run = 2 /\ Written /\ HasTarget
  /\ Len(unique) < cfg.target[1]
  /\ "dir" \in Range(cfg.inputs)

\* C7 (idempotence of normalisation): normalising a normalised token changes nothing.
C7_Idempotent == npc = "twice" => norm2 = norm1

\* C7 witness: a raw token holding an accented letter and a dropped character was
\* normalised twice to a non-empty result.
C7_Witness ==
  /\ npc = "twice" /\ norm1 # <<>> /\ norm1 # raw
  /\ \E i \in 1..Len(raw) : raw[i] \in AccentedLetters
  /\ Len(norm1) < Len(raw)

\* C8 (NormalizedToken invariant): every token in the unique set and in the final
\* list is made of lowercase letters (hyphens only with keep_hyphens), holds a
\* letter, and has a length within [min_len, max_len].
C8_NormalizedTokens ==
  \A t \in Range(seen) \cup Range(base_words) \cup Range(lex) : IsNormalizedToken(t)

\* C8 witness: the output holds a hyphenated token and a token only the extras gave.
C8_Witness ==
  /\ Written
  /\ \E t \in Range(lex) : "-" \in Range(t)
  /\ \E t \in Range(lex) : t \in ExtrasTokens /\ t \notin ReadableTokens

\* C9 (ordered de-duplication): the unique set holds each admitted token once, in
\* the order of first occurrence over the corpus files and then the extras.
C9_OrderedDedup == FirstOccurrenceOrder(seen, admitted)

\* C9 witness: tokens repeated, and the extras gave both a known and a new token.
C9_Witness ==
  /\ pc = "shuffle"
  /\ Len(admitted) > Len(seen) + 1
  /\ \E t \in ExtrasTokens : t \in ReadableTokens
  /\ seen # <<>> /\ seen[Len(seen)] \in ExtrasTokens \ ReadableTokens

\* C10 (as claimed): a run that skipped a bad path or an unreadable file always
\* goes on to the shuffle.
C10_NeverAborts == (Finished /\ warnings # <<>>) => PastShuffle

\* C10 (amended): when at least one file was resolved and a requested extras file
\* opens, a run that skipped a bad path or an unreadable file handles every file
\* and reaches the shuffle with the tokens of the readable files and the extras.
C10_ContinuesWithReadable ==
  (Finished /\ warnings # <<>> /\ files # <<>> /\ cfg.extras_path # "missing.txt") =>
    /\ PastShuffle
    /\ fi = Len(files)
    /\ Range(unique) = ReadableTokens \cup ExtrasTokens

\* C10 witness: the first path is skipped or unreadable, and the tokens of a later
\* file are written.
C10_Witness ==
  /\ Written /\ warnings # <<>>
  /\ cfg.inputs[1] \in {"nowhere", "locked.txt"}
  /\ cfg.extras_path = "none"
  /\ outfile.lines # <<>>

====
